---- MODULE Spec2Model ----
(***************************************************************************)
(* Blogicum: the post-visibility and authorization policy of the blog      *)
(* views (blog/views.py) over the entity store declared in blog/models.py. *)
(*                                                                         *)
(* The store holds posts, comments and categories.  A request is handled   *)
(* synchronously: a handler reads the store and the clock, possibly        *)
(* writes the store, and produces one response; the response is sent       *)
(* before the next request is taken.  Title, text, image and location of   *)
(* a post are not modelled: no handler branches on them.                   *)
(***************************************************************************)
EXTENDS Integers, Sequences, FiniteSets, TLC

\* ---------------------------------------------------------------- bounds
MaxPosts == 2
MaxComments == 2
MaxTime == 1
MaxListed == 25

\* ------------------------------------------------------- program constants
POSTS_ON_PAGE == 10

Users == {"alice", "bob"}
AnonymousUser == "anonymous"
Viewers == Users \cup {AnonymousUser}
Usernames == Users \cup {"nobody"}
Slugs == {"travel", "news"}
SlugInputs == Slugs \cup {"nosuch"}
NULL == "NULL"
Texts == {"hi", "bye"}
TextInputs == Texts \cup {""}
Methods == {"GET", "POST"}
PostIds == 1..MaxPosts
CommentIds == 1..MaxComments
Times == 0..MaxTime

VARIABLES
    posts,       \* pk -> Post row (blog_post)
    lastPost,    \* autoincrement counter of blog_post
    comments,    \* id -> Comment row (blog_comment)
    lastComment, \* autoincrement counter of blog_comment
    categories,  \* slug -> Category row (blog_category)
    now,         \* timezone.now()
    response     \* the response of the request being served, or NoResponse

vars == <<posts, lastPost, comments, lastComment, categories, now, response>>
store == <<posts, lastPost, comments, lastComment, categories>>

\* ------------------------------------------------------------------ rows
Post(author, is_published, pub_date, category) ==
    [author |-> author, is_published |-> is_published,
     pub_date |-> pub_date, category |-> category]

Comment(post, author, text) ==
    [post |-> post, author |-> author, text |-> text]

Category(is_published) == [is_published |-> is_published]

\* --------------------------------------------------------------- responses
Response(op, method, viewer, pk, cid, name, outcome, target) ==
    [op |-> op, method |-> method, viewer |-> viewer, pk |-> pk, cid |-> cid,
     name |-> name, outcome |-> outcome, target |-> target,
     text |-> "", page |-> 0, post_list |-> <<>>, number |-> 0,
     num_pages |-> 0, page_list |-> <<>>, comment_list |-> <<>>]

NoResponse == Response("none", "GET", AnonymousUser, 0, 0, "", "none", 0)

is_authenticated(viewer) == viewer # AnonymousUser

\* ------------------------------------------------------------ query helpers
\* order_by('-pub_date'): rows of equal pub_date come in primary-key order,
\* the order the table is scanned in.
Precedes(p, q) ==
    \/ posts[p].pub_date > posts[q].pub_date
    \/ posts[p].pub_date = posts[q].pub_date /\ p < q

OrderByPubDateDesc(S) ==
    [i \in 1..Cardinality(S) |->
        CHOOSE p \in S : Cardinality({q \in S : Precedes(q, p)}) = i - 1]

\* Comment.Meta.ordering = ('created_at',): creation order is id order.
OrderByCreatedAt(S) ==
    [i \in 1..Cardinality(S) |->
        CHOOSE c \in S : Cardinality({d \in S : d < c}) = i - 1]

\* Mutant: the page count is truncated and one added.
NumPagesTruncated(count) == count \div POSTS_ON_PAGE + 1

\* Paginator(object_list, per_page).num_pages, orphans = 0.
NumPages(count) ==
    LET hits == IF count > 1 THEN count ELSE 1
    IN  (hits + POSTS_ON_PAGE - 1) \div POSTS_ON_PAGE

\* Paginator.page(number).object_list
PageObjects(list, number) ==
    LET bottom == (number - 1) * POSTS_ON_PAGE
        top == IF bottom + POSTS_ON_PAGE < Len(list)
               THEN bottom + POSTS_ON_PAGE ELSE Len(list)
    IN  SubSeq(list, bottom + 1, top)

\* ListView.paginate_queryset: a page number out of range is Http404.
PaginateBy(base, queryset, page) ==
    IF page \in 1..NumPages(Len(queryset))
    THEN [base EXCEPT !.outcome = "ok", !.page = page,
                      !.post_list = queryset, !.number = page,
                      !.num_pages = NumPages(Len(queryset)),
                      !.page_list = PageObjects(queryset, page)]
    ELSE [base EXCEPT !.outcome = "not_found", !.page = page]

\* Paginator.get_page: a page number out of range gives the last page.
GetPage(base, queryset, page) ==
    LET number == IF page \in 1..NumPages(Len(queryset))
                  THEN page ELSE NumPages(Len(queryset))
    IN  [base EXCEPT !.outcome = "ok", !.page = page,
                     !.post_list = queryset, !.number = number,
                     !.num_pages = NumPages(Len(queryset)),
                     !.page_list = PageObjects(queryset, number)]

\* ------------------------------------------------------------ read handlers
\* Mutant: the category's flag is not filtered on.
PostListQuerysetAnyCategory ==
    OrderByPubDateDesc({p \in DOMAIN posts :
        /\ posts[p].is_published
        /\ posts[p].pub_date <= now})

\* PostListView.get_queryset
PostListQueryset ==
    OrderByPubDateDesc({p \in DOMAIN posts :
        /\ posts[p].is_published
        /\ posts[p].pub_date <= now
        /\ posts[p].category # NULL
        /\ categories[posts[p].category].is_published})

PostListView(viewer, page) ==
    /\ response = NoResponse
    /\ response' = PaginateBy(
           Response("index", "GET", viewer, 0, 0, "", "none", 0),
           PostListQueryset, page)
    /\ UNCHANGED <<store, now>>

\* Mutant: posts dated in the future are not filtered out.
CategoryListQuerysetAnyDate(category_slug) ==
    OrderByPubDateDesc({p \in DOMAIN posts :
        /\ posts[p].category = category_slug
        /\ posts[p].is_published})

\* CategoryListView.get_queryset
CategoryListQueryset(category_slug) ==
    OrderByPubDateDesc({p \in DOMAIN posts :
        /\ posts[p].category = category_slug
        /\ posts[p].is_published
        /\ posts[p].pub_date <= now})

CategoryListResponse(viewer, category_slug, page) ==
    LET base == [Response("category", "GET", viewer, 0, 0, category_slug,
                          "none", 0) EXCEPT !.page = page]
    IN  IF ~is_authenticated(viewer)
        THEN [base EXCEPT !.outcome = "redirect_login"]
        ELSE IF category_slug \notin DOMAIN categories
        THEN [base EXCEPT !.outcome = "not_found"]
        ELSE IF ~categories[category_slug].is_published
        THEN [base EXCEPT !.outcome = "not_found"]
        ELSE PaginateBy(base, CategoryListQueryset(category_slug), page)

CategoryListView(viewer, category_slug, page) ==
    /\ response = NoResponse
    /\ response' = CategoryListResponse(viewer, category_slug, page)
    /\ UNCHANGED <<store, now>>

\* Mutant: the category's flag is not looked at.
PostHiddenNoCategory(post) ==
    \/ post.pub_date > now
    \/ ~post.is_published

\* Mutant: a post dated exactly now is still held back.
PostHiddenStrict(post) ==
    \/ post.pub_date >= now
    \/ ~post.is_published
    \/ post.category # NULL /\ ~categories[post.category].is_published

\* The condition of PostDetailView.get under which only the author is served.
PostHidden(post) ==
    \/ post.pub_date > now
    \/ ~post.is_published
    \/ post.category # NULL /\ ~categories[post.category].is_published

PostDetailResponse(viewer, pk) ==
    LET base == Response("detail", "GET", viewer, pk, 0, "", "none", 0)
    IN  IF ~is_authenticated(viewer)
        THEN [base EXCEPT !.outcome = "redirect_login"]
        ELSE IF pk \notin DOMAIN posts
        THEN [base EXCEPT !.outcome = "not_found"]
        ELSE IF PostHidden(posts[pk]) /\ viewer # posts[pk].author
        THEN [base EXCEPT !.outcome = "not_found"]
        ELSE [base EXCEPT !.outcome = "ok",
                          !.comment_list = OrderByCreatedAt(
                              {c \in DOMAIN comments : comments[c].post = pk})]

PostDetailView(viewer, pk) ==
    /\ response = NoResponse
    /\ response' = PostDetailResponse(viewer, pk)
    /\ UNCHANGED <<store, now>>

\* Mutant: the owner gets the filtered list too.
ProfileQuerysetFiltered(viewer, username) ==
    OrderByPubDateDesc({p \in DOMAIN posts :
        /\ posts[p].author = username
        /\ posts[p].is_published
        /\ posts[p].pub_date <= now})

\* ProfileDetailView.get_context_data
ProfileQueryset(viewer, username) ==
    LET user_posts == {p \in DOMAIN posts : posts[p].author = username}
    IN  IF viewer # username
        THEN OrderByPubDateDesc({p \in user_posts :
                 posts[p].is_published /\ posts[p].pub_date <= now})
        ELSE OrderByPubDateDesc(user_posts)

ProfileDetailResponse(viewer, username, page) ==
    LET base == [Response("profile", "GET", viewer, 0, 0, username,
                          "none", 0) EXCEPT !.page = page]
    IN  IF username \notin Users
        THEN [base EXCEPT !.outcome = "not_found"]
        ELSE GetPage(base, ProfileQueryset(viewer, username), page)

ProfileDetailView(viewer, username, page) ==
    /\ response = NoResponse
    /\ response' = ProfileDetailResponse(viewer, username, page)
    /\ UNCHANGED <<store, now>>

\* ----------------------------------------------------------- post handlers
\* Mutant: any logged-in user passes for the author.
IsAuthorOrLoggedIn(post, user) == post.author = user \/ is_authenticated(user)

\* instance.author != request.user (PostUpdateView.dispatch),
\* request.user != post.author (PostDeleteView.dispatch)
IsAuthor(post, user) == post.author = user

\* PostForm: fields title, text, pub_date, image, location, category; the
\* category is required and must be a row of blog_category.
PostFormValid(category) == category \in DOMAIN categories

\* PostCreateView: LoginRequiredMixin, then CreateView with PostForm.
PostCreateView(viewer, method, pub_date, category) ==
    LET base == Response("create_post", method, viewer, 0, 0, "", "none", 0)
    IN  /\ response = NoResponse
        /\ IF ~is_authenticated(viewer)
           THEN /\ response' = [base EXCEPT !.outcome = "redirect_login"]
                /\ UNCHANGED <<store, now>>
           ELSE IF method = "GET"
           THEN /\ response' = [base EXCEPT !.outcome = "ok"]
                /\ UNCHANGED <<store, now>>
           ELSE IF ~PostFormValid(category)
           THEN /\ response' = [base EXCEPT !.outcome = "form_invalid"]
                /\ UNCHANGED <<store, now>>
           ELSE /\ lastPost < MaxPosts
                /\ lastPost' = lastPost + 1
                /\ posts' = posts @@
                       (lastPost + 1 :> Post(viewer, TRUE, pub_date, category))
                /\ response' = [base EXCEPT !.outcome = "redirect_profile",
                                            !.name = viewer,
                                            !.pk = lastPost + 1]
                /\ UNCHANGED <<comments, lastComment, categories, now>>

\* The row PostUpdateView saves: fields = '__all__' makes every editable
\* column of Post a form field, the author among them.
UpdatedPost(old, form) == form

\* PostUpdateView.dispatch, then LoginRequiredMixin and UpdateView.
PostUpdateView(viewer, pk, method, form) ==
    LET base == Response("edit_post", method, viewer, pk, 0, "", "none", 0)
    IN  /\ response = NoResponse
        /\ IF pk \notin DOMAIN posts
           THEN /\ response' = [base EXCEPT !.outcome = "not_found"]
                /\ UNCHANGED <<store, now>>
           ELSE IF ~IsAuthor(posts[pk], viewer)
           THEN /\ response' = [base EXCEPT !.outcome = "redirect_detail",
                                            !.target = pk]
                /\ UNCHANGED <<store, now>>
           ELSE IF ~is_authenticated(viewer)
           THEN /\ response' = [base EXCEPT !.outcome = "redirect_login"]
                /\ UNCHANGED <<store, now>>
           ELSE IF method = "GET"
           THEN /\ response' = [base EXCEPT !.outcome = "ok"]
                /\ UNCHANGED <<store, now>>
           ELSE IF ~PostFormValid(form.category)
           THEN /\ response' = [base EXCEPT !.outcome = "form_invalid"]
                /\ UNCHANGED <<store, now>>
           ELSE /\ posts' = [posts EXCEPT ![pk] = UpdatedPost(posts[pk], form)]
                /\ response' = [base EXCEPT !.outcome = "redirect_detail",
                                            !.target = pk]
                /\ UNCHANGED <<lastPost, comments, lastComment, categories, now>>

\* Mutant: the comments of a deleted post are left behind.
NoCascade(pk) == comments

\* Comment.post: on_delete = CASCADE.
CascadeComments(pk) ==
    [c \in {d \in DOMAIN comments : comments[d].post # pk} |-> comments[c]]

\* PostDeleteView.dispatch, then LoginRequiredMixin and DeleteView.
PostDeleteView(viewer, pk, method) ==
    LET base == Response("delete_post", method, viewer, pk, 0, "", "none", 0)
    IN  /\ response = NoResponse
        /\ IF pk \notin DOMAIN posts
           THEN /\ response' = [base EXCEPT !.outcome = "not_found"]
                /\ UNCHANGED <<store, now>>
           ELSE IF ~IsAuthor(posts[pk], viewer)
           THEN /\ response' = [base EXCEPT !.outcome = "redirect_detail",
                                            !.target = pk]
                /\ UNCHANGED <<store, now>>
           ELSE IF ~is_authenticated(viewer)
           THEN /\ response' = [base EXCEPT !.outcome = "redirect_login"]
                /\ UNCHANGED <<store, now>>
           ELSE IF method = "GET"
           THEN /\ response' = [base EXCEPT !.outcome = "ok"]
                /\ UNCHANGED <<store, now>>
           ELSE /\ posts' = [p \in DOMAIN posts \ {pk} |-> posts[p]]
                /\ comments' = CascadeComments(pk)
                /\ response' = [base EXCEPT !.outcome = "redirect_index"]
                /\ UNCHANGED <<lastPost, lastComment, categories, now>>

\* -------------------------------------------------------- comment handlers
\* CommentForm: fields = ('text',); Comment.text is required.
CommentFormValid(text) == text # ""

\* CommentCreateView: LoginRequiredMixin, then CreateView with CommentForm;
\* the post is looked up in form_valid.
CommentCreateView(viewer, pk, method, text) ==
    LET base == [Response("add_comment", method, viewer, pk, 0, "",
                          "none", 0) EXCEPT !.text = text]
    IN  /\ response = NoResponse
        /\ IF ~is_authenticated(viewer)
           THEN /\ response' = [base EXCEPT !.outcome = "redirect_login"]
                /\ UNCHANGED <<store, now>>
           ELSE IF method = "GET"
           THEN /\ response' = [base EXCEPT !.outcome = "ok"]
                /\ UNCHANGED <<store, now>>
           ELSE IF ~CommentFormValid(text)
           THEN /\ response' = [base EXCEPT !.outcome = "form_invalid"]
                /\ UNCHANGED <<store, now>>
           ELSE IF pk \notin DOMAIN posts
           THEN /\ response' = [base EXCEPT !.outcome = "not_found"]
                /\ UNCHANGED <<store, now>>
           ELSE /\ lastComment < MaxComments
                /\ lastComment' = lastComment + 1
                /\ comments' = comments @@
                       (lastComment + 1 :> Comment(pk, viewer, text))
                /\ response' = [base EXCEPT !.outcome = "redirect_detail",
                                            !.target = pk,
                                            !.cid = lastComment + 1]
                /\ UNCHANGED <<posts, lastPost, categories, now>>

\* Mutant: the queryset is not restricted to the viewer's comments.
AllComments(viewer) == DOMAIN comments

\* CommentUpdateView.get_queryset / CommentDeleteView.get_queryset
OwnComments(viewer) == {c \in DOMAIN comments : comments[c].author = viewer}

\* CommentUpdateView: LoginRequiredMixin, then UpdateView over get_queryset;
\* form_invalid raises Http404.
CommentUpdateView(viewer, pk, comment_id, method, text) ==
    LET base == [Response("edit_comment", method, viewer, pk, comment_id,
                          "", "none", 0) EXCEPT !.text = text]
    IN  /\ response = NoResponse
        /\ IF ~is_authenticated(viewer)
           THEN /\ response' = [base EXCEPT !.outcome = "redirect_login"]
                /\ UNCHANGED <<store, now>>
           ELSE IF comment_id \notin OwnComments(viewer)
           THEN /\ response' = [base EXCEPT !.outcome = "not_found"]
                /\ UNCHANGED <<store, now>>
           ELSE IF method = "GET"
           THEN /\ response' = [base EXCEPT !.outcome = "ok"]
                /\ UNCHANGED <<store, now>>
           ELSE IF ~CommentFormValid(text)
           THEN /\ response' = [base EXCEPT !.outcome = "not_found"]
                /\ UNCHANGED <<store, now>>
           ELSE /\ comments' = [comments EXCEPT ![comment_id].text = text]
                /\ response' = [base EXCEPT !.outcome = "redirect_detail",
                                    !.target = comments[comment_id].post]
                /\ UNCHANGED <<posts, lastPost, lastComment, categories, now>>

\* CommentDeleteView: LoginRequiredMixin, then DeleteView over get_queryset.
CommentDeleteView(viewer, pk, comment_id, method) ==
    LET base == Response("delete_comment", method, viewer, pk, comment_id, "",
                         "none", 0)
    IN  /\ response = NoResponse
        /\ IF ~is_authenticated(viewer)
           THEN /\ response' = [base EXCEPT !.outcome = "redirect_login"]
                /\ UNCHANGED <<store, now>>
           ELSE IF comment_id \notin OwnComments(viewer)
           THEN /\ response' = [base EXCEPT !.outcome = "not_found"]
                /\ UNCHANGED <<store, now>>
           ELSE IF method = "GET"
           THEN /\ response' = [base EXCEPT !.outcome = "ok"]
                /\ UNCHANGED <<store, now>>
           ELSE /\ comments' = [c \in DOMAIN comments \ {comment_id} |->
                                   comments[c]]
                /\ response' = [base EXCEPT !.outcome = "redirect_detail",
                                            !.target = pk]
                /\ UNCHANGED <<posts, lastPost, lastComment, categories, now>>

\* ------------------------------------------------------------- environment
\* timezone.now() advances between requests.
Tick ==
    /\ response = NoResponse
    /\ now < MaxTime
    /\ now' = now + 1
    /\ UNCHANGED <<store, response>>

\* A category row is removed (admin site): Post.category is SET_NULL.
CategoryDelete(slug) ==
    /\ response = NoResponse
    /\ slug \in DOMAIN categories
    /\ categories' = [s \in DOMAIN categories \ {slug} |-> categories[s]]
    /\ posts' = [p \in DOMAIN posts |->
                    IF posts[p].category = slug
                    THEN [posts[p] EXCEPT !.category = NULL]
                    ELSE posts[p]]
    /\ UNCHANGED <<lastPost, comments, lastComment, now, response>>

\* The response is sent; the next request can be taken.
SendResponse ==
    /\ response # NoResponse
    /\ response' = NoResponse
    /\ UNCHANGED <<store, now>>

\* ---------------------------------------------------------- specifications
PostForms == {Post(a, b, d, c) : a \in Users, b \in BOOLEAN, d \in Times,
                                 c \in Slugs \cup {NULL}}
PageInputs(most) == 1..(most \div POSTS_ON_PAGE + 2)

EmptyStore ==
    /\ posts = <<>>
    /\ lastPost = 0
    /\ comments = <<>>
    /\ lastComment = 0

\* The blog with its categories loaded and nothing posted yet.
Init ==
    /\ EmptyStore
    /\ categories \in [Slugs -> {Category(TRUE), Category(FALSE)}]
    /\ now = 0
    /\ response = NoResponse

PostWrites(forms) ==
    \/ \E v \in Viewers, m \in Methods, f \in forms :
           PostCreateView(v, m, f.pub_date, f.category)
    \/ \E v \in Viewers, pk \in PostIds, m \in Methods, f \in forms :
           PostUpdateView(v, pk, m, f)
    \/ \E v \in Viewers, pk \in PostIds, m \in Methods :
           PostDeleteView(v, pk, m)

Next ==
    \/ \E v \in Viewers, n \in PageInputs(MaxPosts) : PostListView(v, n)
    \/ \E v \in Viewers, s \in SlugInputs, n \in PageInputs(MaxPosts) :
           CategoryListView(v, s, n)
    \/ \E v \in Viewers, pk \in PostIds : PostDetailView(v, pk)
    \/ \E v \in Viewers, u \in Usernames, n \in PageInputs(MaxPosts) :
           ProfileDetailView(v, u, n)
    \/ PostWrites(PostForms)
    \/ Tick
    \/ \E s \in Slugs : CategoryDelete(s)
    \/ SendResponse

Spec == Init /\ [][Next]_vars

\* Comments on posts: the categories are all published, the clock stands,
\* and the post forms vary the author and the validity of the category.
CommentedPostForms ==
    {Post(a, TRUE, 0, c) : a \in Users, c \in {"travel", NULL}}

InitComments ==
    /\ EmptyStore
    /\ categories = [s \in Slugs |-> Category(TRUE)]
    /\ now = 0
    /\ response = NoResponse

NextComments ==
    \/ PostWrites(CommentedPostForms)
    \/ \E v \in Viewers, pk \in PostIds, m \in Methods, t \in TextInputs :
           CommentCreateView(v, pk, m, t)
    \/ \E v \in Viewers, pk \in PostIds, c \in CommentIds, m \in Methods,
          t \in TextInputs : CommentUpdateView(v, pk, c, m, t)
    \/ \E v \in Viewers, pk \in PostIds, c \in CommentIds, m \in Methods :
           CommentDeleteView(v, pk, c, m)
    \/ \E v \in Viewers, pk \in PostIds : PostDetailView(v, pk)
    \/ SendResponse

SpecComments == InitComments /\ [][NextComments]_vars

\* Long listings: up to MaxListed posts of alice in a published category,
\* the first of them possibly a draft; only the listings are requested.
InitPage ==
    /\ \E n \in 0..MaxListed, draft \in 0..1 :
           posts = [i \in 1..n |->
                       Post("alice", i # draft, i % (MaxTime + 1), "travel")]
    /\ lastPost = Len(posts)
    /\ comments = <<>>
    /\ lastComment = 0
    /\ categories = [s \in Slugs |-> Category(TRUE)]
    /\ now = MaxTime
    /\ response = NoResponse

NextPage ==
    \/ \E v \in Viewers, n \in PageInputs(MaxListed) : PostListView(v, n)
    \/ \E v \in Viewers, s \in SlugInputs, n \in PageInputs(MaxListed) :
           CategoryListView(v, s, n)
    \/ \E v \in Viewers, u \in Usernames, n \in PageInputs(MaxListed) :
           ProfileDetailView(v, u, n)
    \/ SendResponse

SpecPage == InitPage /\ [][NextPage]_vars

\* ================================================================ claims
\* Vocabulary of the claims, stated on the rows of the store.
CategoryPublished(p) ==
    posts[p].category # NULL /\ categories[posts[p].category].is_published

PubliclyVisible(p) ==
    /\ posts[p].is_published
    /\ posts[p].pub_date <= now
    /\ (posts[p].category = NULL \/ CategoryPublished(p))

Descending(list) ==
    \A i, j \in 1..Len(list) :
        i < j => posts[list[i]].pub_date >= posts[list[j]].pub_date

\* list holds exactly the posts of S, each once
Lists(list, S) ==
    /\ {list[i] : i \in 1..Len(list)} = S
    /\ Len(list) = Cardinality(S)

\* What the visibility contract gives viewer v for post id pk.
DetailContract(v, pk) ==
    IF pk \in DOMAIN posts /\ (v = posts[pk].author \/ PubliclyVisible(pk))
    THEN "ok" ELSE "not_found"

\* C1 (as claimed): for every viewer, the anonymous one included, post
\* detail returns the post to its author, to anyone else iff the post is
\* published, not in the future and its category null or published, and is
\* NotFound in every other case and for an id no post has.
C1_DetailAnyViewer ==
    response.op = "detail" =>
        response.outcome = DetailContract(response.viewer, response.pk)

\* C1 (amended): the same for every logged-in viewer; an anonymous viewer
\* is redirected to the login page whatever the id.
C1_DetailLoggedIn ==
    response.op = "detail" =>
        IF is_authenticated(response.viewer)
        THEN response.outcome = DetailContract(response.viewer, response.pk)
        ELSE response.outcome = "redirect_login"

\* C1 witness: a logged-in non-author is refused a published, past post
\* because its category is unpublished.
C1_Witness ==
    /\ response.op = "detail"
    /\ response.outcome = "not_found"
    /\ is_authenticated(response.viewer)
    /\ response.pk \in DOMAIN posts
    /\ posts[response.pk].is_published
    /\ posts[response.pk].pub_date <= now
    /\ posts[response.pk].category # NULL

\* ceil(n / POSTS_ON_PAGE), and one page for an empty listing
ExpectedPages(n) ==
    IF n = 0 THEN 1
    ELSE CHOOSE k \in 1..n :
             (k - 1) * POSTS_ON_PAGE < n /\ n <= k * POSTS_ON_PAGE

\* C5: the public list holds exactly the published posts dated now or
\* earlier whose category exists and is published, each once, newest first,
\* whoever asks; asking again at the same instant gives the same list.
C5_PublicList ==
    response.op = "index" =>
        LET S == {p \in DOMAIN posts :
                     /\ posts[p].is_published
                     /\ posts[p].pub_date <= now
                     /\ CategoryPublished(p)}
        IN  response.page \in 1..ExpectedPages(Cardinality(S)) =>
                /\ response.outcome = "ok"
                /\ Lists(response.post_list, S)
                /\ Descending(response.post_list)
                /\ \A v \in Viewers :
                       PaginateBy(Response("index", "GET", v, 0, 0, "",
                                           "none", 0),
                                  PostListQueryset, response.page).post_list
                           = response.post_list

\* C5 witness: two posts are listed, the one created later first, while
\* some viewer other than their authors asked.
C5_Witness ==
    /\ response.op = "index"
    /\ response.outcome = "ok"
    /\ Len(response.post_list) = 2
    /\ response.post_list[1] > response.post_list[2]
    /\ posts[response.post_list[1]].pub_date
           > posts[response.post_list[2]].pub_date
    /\ response.viewer = AnonymousUser

\* What the category listing is claimed to give for a slug.
CategoryContract ==
    LET slug == response.name
        S == {p \in DOMAIN posts :
                 /\ posts[p].category = slug
                 /\ posts[p].is_published
                 /\ posts[p].pub_date <= now}
    IN  IF slug \notin DOMAIN categories
        THEN response.outcome = "not_found"
        ELSE IF ~categories[slug].is_published
        THEN response.outcome = "not_found"
        ELSE response.page \in 1..ExpectedPages(Cardinality(S)) =>
                 /\ response.outcome = "ok"
                 /\ Lists(response.post_list, S)
                 /\ Descending(response.post_list)

\* C6 (as claimed): the category listing is NotFound for a slug no category
\* has or whose category is unpublished, and otherwise exactly the
\* published posts of that category dated now or earlier, newest first.
C6_CategoryListAnyViewer ==
    response.op = "category" => CategoryContract

\* C6 (amended): the same for a logged-in viewer; an anonymous viewer is
\* redirected to the login page whatever the slug.
C6_CategoryListLoggedIn ==
    response.op = "category" =>
        IF is_authenticated(response.viewer)
        THEN CategoryContract
        ELSE response.outcome = "redirect_login"

\* C6 witness: a published category lists one of its two posts, the other
\* being unpublished or dated in the future.
C6_Witness ==
    /\ response.op = "category"
    /\ response.outcome = "ok"
    /\ Len(response.post_list) = 1
    /\ Cardinality({p \in DOMAIN posts :
                       posts[p].category = response.name}) = 2

\* C7: the profile of user U lists, for U, all posts U authored, and for
\* anyone else exactly U's published posts dated now or earlier, whatever
\* their category; U's posts only, newest first.
C7_ProfileList ==
    (response.op = "profile" /\ response.name \in Users) =>
        LET own == {p \in DOMAIN posts : posts[p].author = response.name}
            S == IF response.viewer = response.name
                 THEN own
                 ELSE {p \in own : posts[p].is_published
                                   /\ posts[p].pub_date <= now}
        IN  /\ response.outcome = "ok"
            /\ Lists(response.post_list, S)
            /\ Descending(response.post_list)

\* C7 witness: an anonymous viewer is listed two posts, newest first, the
\* first in a category that is not published.
C7_Witness ==
    /\ response.op = "profile"
    /\ response.viewer = AnonymousUser
    /\ Len(response.post_list) = 2
    /\ ~CategoryPublished(response.post_list[1])
    /\ posts[response.post_list[1]].pub_date
           > posts[response.post_list[2]].pub_date

\* C7 witness of the owner's case: the owner is listed a draft.
C7_OwnerSeesDraft ==
    /\ response.op = "profile"
    /\ response.viewer = response.name
    /\ \E i \in 1..Len(response.post_list) :
           ~posts[response.post_list[i]].is_published

Listing == response.op \in {"index", "category", "profile"}
                /\ response.outcome = "ok"

\* C10 (as claimed): every post listed for a viewer in the public list, a
\* category list or a profile list is not NotFound for that viewer in post
\* detail at the same instant.
C10_ListedIsOpenable ==
    Listing =>
        \A i \in 1..Len(response.post_list) :
            PostDetailResponse(response.viewer,
                               response.post_list[i]).outcome # "not_found"

\* C10 (amended): that holds for the public list, the category lists, and
\* for the posts of a profile list that the viewer authored or whose
\* category is null or published; a logged-in viewer is then served the
\* post.
C10_ListedIsOpenableUnlessProfileCategoryHidden ==
    Listing =>
        \A i \in 1..Len(response.post_list) :
            LET p == response.post_list[i]
                detail == PostDetailResponse(response.viewer, p).outcome
            IN  (response.op = "profile" =>
                     \/ posts[p].author = response.viewer
                     \/ posts[p].category = NULL
                     \/ CategoryPublished(p))
                => /\ detail # "not_found"
                   /\ is_authenticated(response.viewer) => detail = "ok"

\* C10 witness: a logged-in viewer is listed, on another user's profile, a
\* post without category.
C10_Witness ==
    /\ response.op = "profile"
    /\ is_authenticated(response.viewer)
    /\ response.viewer # response.name
    /\ Len(response.post_list) > 0
    /\ posts[response.post_list[1]].category = NULL

\* A step that serves a logged-in viewer's edit or delete request for an
\* existing post of another author.
NonAuthorPostRequest ==
    /\ response'.op \in {"edit_post", "delete_post"}
    /\ is_authenticated(response'.viewer)
    /\ response'.pk \in DOMAIN posts
    /\ posts[response'.pk].author # response'.viewer

\* C2: an edit or delete request (GET or POST) of a logged-in viewer for an
\* existing post of another author is answered by a redirect to that
\* post's detail view and leaves the store as it was: the post with all
\* its fields, and the comments.
C2_NonAuthorRedirected ==
    [][NonAuthorPostRequest =>
          /\ response'.outcome = "redirect_detail"
          /\ response'.target = response'.pk
          /\ posts' = posts
          /\ comments' = comments
          /\ categories' = categories]_vars

\* C2 witness: a POST to delete a commented post of another author was
\* answered by the redirect; post and comment are still there.
C2_Witness ==
    /\ response.op = "delete_post"
    /\ response.method = "POST"
    /\ is_authenticated(response.viewer)
    /\ response.outcome = "redirect_detail"
    /\ response.pk \in DOMAIN posts
    /\ posts[response.pk].author # response.viewer
    /\ \E c \in DOMAIN comments : comments[c].post = response.pk

\* A step that serves a logged-in viewer's edit or delete request for an
\* existing comment.
CommentRequest ==
    /\ response'.op \in {"edit_comment", "delete_comment"}
    /\ is_authenticated(response'.viewer)
    /\ response'.cid \in DOMAIN comments

\* C3: such a request for a comment of another author is NotFound and
\* leaves the comment (and the rest of the store) as it was; from the
\* comment's author, a POST with valid input succeeds and changes that
\* comment only: the edit sets its text, the delete removes it.
C3_CommentOwnership ==
    [][CommentRequest =>
          LET c == response'.cid
              v == response'.viewer
              others == DOMAIN comments \ {c}
          IN  IF comments[c].author # v
              THEN /\ response'.outcome = "not_found"
                   /\ comments' = comments
                   /\ posts' = posts
              ELSE /\ posts' = posts
                   /\ \A d \in others :
                          d \in DOMAIN comments' /\ comments'[d] = comments[d]
                   /\ response'.method = "GET" =>
                          response'.outcome = "ok" /\ comments' = comments
                   /\ (response'.method = "POST"
                          /\ response'.op = "edit_comment"
                          /\ response'.text # "") =>
                          /\ response'.outcome = "redirect_detail"
                          /\ DOMAIN comments' = DOMAIN comments
                          /\ comments'[c] =
                                 [comments[c] EXCEPT !.text = response'.text]
                   /\ (response'.method = "POST"
                          /\ response'.op = "delete_comment") =>
                          /\ response'.outcome = "redirect_detail"
                          /\ DOMAIN comments' = others]_vars

\* C3 witness: a POST with valid text to edit another author's comment was
\* answered NotFound, the text untouched.
C3_Witness ==
    /\ response.op = "edit_comment"
    /\ response.method = "POST"
    /\ response.text \in Texts
    /\ is_authenticated(response.viewer)
    /\ response.outcome = "not_found"
    /\ response.cid \in DOMAIN comments
    /\ comments[response.cid].author # response.viewer
    /\ comments[response.cid].text # response.text

\* C4: a post's author is the authenticated viewer who created it and no
\* request changes it, so that only the creating user's requests modify or
\* delete a post.
C4_AuthorIsCreator ==
    [][/\ \A p \in DOMAIN posts' \ DOMAIN posts :
              posts'[p].author = response'.viewer
       /\ \A p \in DOMAIN posts \cap DOMAIN posts' :
              posts'[p].author = posts[p].author
       /\ \A p \in DOMAIN posts :
              (p \notin DOMAIN posts' \/ posts'[p] # posts[p]) =>
                  response'.viewer = posts[p].author]_vars

\* Every comment is on a post of the store.
CommentsHavePosts == \A c \in DOMAIN comments : comments[c].post \in DOMAIN posts

\* C8: every comment references an existing post: a post delete by the
\* author removes the post with exactly its own comments, and a comment
\* submitted for an id no post has is NotFound and stores nothing.
C8_CommentsFollowPosts ==
    /\ CommentsHavePosts
    /\ [][/\ CommentsHavePosts'
          /\ (response'.op = "delete_post"
                 /\ response'.outcome = "redirect_index") =>
                 /\ DOMAIN posts' = DOMAIN posts \ {response'.pk}
                 /\ DOMAIN comments' =
                        {c \in DOMAIN comments :
                            comments[c].post # response'.pk}
                 /\ \A c \in DOMAIN comments' : comments'[c] = comments[c]
          /\ (response'.op = "add_comment" /\ response'.method = "POST"
                 /\ is_authenticated(response'.viewer)
                 /\ response'.text # ""
                 /\ response'.pk \notin DOMAIN posts) =>
                 /\ response'.outcome = "not_found"
                 /\ comments' = comments
          /\ \A c \in DOMAIN comments' \ DOMAIN comments :
                 comments'[c].post = response'.pk
                     /\ response'.pk \in DOMAIN posts]_vars

\* C8 witness: a post was deleted by its author and took a comment with
\* it, while the comment of the other post stays.
C8_Witness ==
    /\ response.op = "delete_post"
    /\ response.outcome = "redirect_index"
    /\ lastComment = 2
    /\ Cardinality(DOMAIN comments) = 1
    /\ \A c \in DOMAIN comments : comments[c].post # response.pk

RECURSIVE ConcatPages(_, _)
\* pages 1..k of list, one after the other
ConcatPages(list, k) ==
    IF k = 0 THEN <<>>
    ELSE ConcatPages(list, k - 1) \o PageObjects(list, k)

\* C9: a listing of N posts has ceil(N/10) pages, one empty page when
\* N = 0; every page but the last holds 10 posts and the last the rest;
\* the pages in order make up the whole listing, no post repeated or
\* dropped; 25 posts give pages of 10, 10 and 5.
C9_Pagination ==
    Listing =>
        LET list == response.post_list
            N == Len(list)
            pages == response.num_pages
            k == response.number
        IN  /\ pages = ExpectedPages(N)
            /\ k \in 1..pages
            /\ response.op # "profile" => k = response.page
            /\ Len(response.page_list) =
                   IF k < pages THEN POSTS_ON_PAGE
                   ELSE N - POSTS_ON_PAGE * (pages - 1)
            /\ \A i \in 1..Len(response.page_list) :
                   response.page_list[i] = list[(k - 1) * POSTS_ON_PAGE + i]
            /\ \A j \in 1..pages :
                   Len(PageObjects(list, j)) =
                       IF j < pages THEN POSTS_ON_PAGE
                       ELSE N - POSTS_ON_PAGE * (pages - 1)
            /\ ConcatPages(list, pages) = list
            /\ \A i, j \in 1..N : i # j => list[i] # list[j]
            /\ N = 25 =>
                   /\ pages = 3
                   /\ Len(PageObjects(list, 1)) = 10
                   /\ Len(PageObjects(list, 2)) = 10
                   /\ Len(PageObjects(list, 3)) = 5

\* C9 witness: the third page of a public list of 25 posts holds 5.
C9_Witness ==
    /\ response.op = "index"
    /\ response.outcome = "ok"
    /\ Len(response.post_list) = 25
    /\ response.number = 3
    /\ Len(response.page_list) = 5

====
